---- MODULE Spec2Model ----
(***************************************************************************)
(* A model of the kona fault-proof program's host backend                  *)
(* (bin/host/src/backend/online.rs), its client entrypoint                 *)
(* (bin/client/src/single.rs) and its executor adapter                     *)
(* (crates/proof/proof/src/executor.rs).                                   *)
(***************************************************************************)
EXTENDS Integers, Sequences, FiniteSets, TLC

(***************************************************************************)
(* Bounds of the model.                                                    *)
(***************************************************************************)
\* Number of concurrently running host tasks (callers of the backend).
NumTasks == 2
\* Number of distinct preimage keys.
NumKeys == 2
\* Seconds that pass in one step of the clock.
TickSecs == 30
\* The per-call count of fetch-handler invocations saturates here.
MaxFetches == 2
\* Number of distinct output roots (B256 values) in play.
NumRoots == 3
\* The highest L2 block number in play.
MaxBlock == 3
\* The counts of the adapter's update_safe_head calls and of the blocks one
\* builder has built saturate here.
MaxUpdates == 2
MaxBuilt == 2
\* The caching oracle is probed with its NumProbes oldest keys, the keys
\* around its capacity and NumProbes keys beyond it, MaxGets times.
NumProbes == 2
MaxGets == 3

Tasks == 1..NumTasks
Keys == 1..NumKeys

(***************************************************************************)
(* Option<T>: None is the empty sequence, Some(x) the one-element one.     *)
(***************************************************************************)
None == <<>>
Some(x) == <<x>>
IsSome(o) == o /= <<>>
Unwrap(o) == o[1]

Min(a, b) == IF a <= b THEN a ELSE b

(***************************************************************************)
(* Hints.  A raw hint is a string, modelled as a sequence of lexemes: the  *)
(* type tag (one lexeme), spaces, and the hex digits of the payload.       *)
(***************************************************************************)
HintTypes == {"l1-block-header", "l2-block-data"}
HexChars == <<"0", "1", "2", "3", "4", "5", "6", "7",
              "8", "9", "a", "b", "c", "d", "e", "f">>

HexValue(c) == (CHOOSE i \in 1..16 : HexChars[i] = c) - 1
IsHexChar(c) == \E i \in 1..16 : HexChars[i] = c

\* s.split(' '): the pieces of s between its spaces.
RECURSIVE SplitSpace(_)
SplitSpace(s) ==
    IF \A i \in 1..Len(s) : s[i] /= " "
    THEN <<s>>
    ELSE LET i == CHOOSE j \in 1..Len(s) :
                      s[j] = " " /\ \A k \in 1..(j - 1) : s[k] /= " "
         IN <<SubSeq(s, 1, i - 1)>> \o SplitSpace(SubSeq(s, i + 1, Len(s)))

\* hex::decode: pairs of hex digits to bytes; fails on odd length or a
\* character that is no hex digit.
RECURSIVE HexDecode(_)
HexDecode(s) ==
    IF Len(s) = 0 THEN Some(<<>>)
    ELSE IF Len(s) = 1 \/ ~IsHexChar(s[1]) \/ ~IsHexChar(s[2]) THEN None
    ELSE LET rest == HexDecode(SubSeq(s, 3, Len(s)))
         IN IF IsSome(rest)
            THEN Some(<<16 * HexValue(s[1]) + HexValue(s[2])>> \o Unwrap(rest))
            ELSE None

\* Hint::from_str: Some([ty, data]) or None for a HintParsingError.
ParseHint(raw) ==
    LET parts == SplitSpace(raw)
    IN IF Len(parts) /= 2 THEN None
       ELSE IF Len(parts[1]) /= 1 \/ parts[1][1] \notin HintTypes THEN None
       ELSE LET data == HexDecode(parts[2])
            IN IF IsSome(data)
               THEN Some([ty |-> parts[1][1], data |-> Unwrap(data)])
               ELSE None

\* The hint strings the callers send: one well-formed string per hint type
\* and key, and malformed ones (unknown tag, bad hex digit, odd number of hex
\* digits, no space, two spaces).
WellFormedHints ==
    {<<ty, " ", "0", HexChars[k + 1]>> : ty \in HintTypes, k \in Keys}
MalformedHints ==
    { <<"bogus", " ", "0", "1">>,
      <<"l1-block-header", " ", "0", "g">>,
      <<"l1-block-header", " ", "1">>,
      <<"l1-block-header", "0", "1">>,
      <<"l2-block-data", " ", "0", "1", " ", "0", "2">> }
RawHints == WellFormedHints \cup MalformedHints

\* hint.parse::<Hint<C::HintType>>() for each of these strings.
Parsed == [raw \in RawHints |-> ParseHint(raw)]

\* The preimage key a hint's payload names, and the bytes stored under a key
\* (the store is content addressed: a key determines its bytes).
HintKey(h) == h.data[1]
PreimageOf(k) == <<k, 255 - k>>

(***************************************************************************)
(* State.                                                                  *)
(***************************************************************************)
VARIABLES
    kv,               \* the shared key-value store: key -> Option<bytes>
    kvReaders,        \* the tasks holding a read lock on the store
    proactive_hints,  \* the hint types serviced eagerly
    last_hint,        \* the last-hint slot: Option<Hint>
    hintReaders,      \* the tasks holding a read lock on the last-hint slot
    hintQueue,        \* the tasks waiting for the last-hint lock, in order
    last_routed,      \* the hint of the last route_hint to replace the slot
    task,             \* each task's call: operation, position and locals
    oracle,           \* what the client's preimage oracle serves to run()
    wire,             \* the hints and reads run() has put on the oracle channel
    run,              \* run(): its position, locals and result
    cache,            \* CachingOracle.cache: the entries, most recently used first
    last_get,         \* the last get_exact on the caching oracle and its outcome
    uses,             \* the keys get_exact has returned bytes for, in order
    gets,             \* how many get_exact calls the caching oracle has had
    inner,            \* KonaExecutor.inner: Option<StatelessL2Builder>
    updates,          \* how many update_safe_head calls the adapter has had
    last_call         \* the adapter's last call and what it returned
hostVars ==
    <<kv, kvReaders, proactive_hints, last_hint, last_routed, hintReaders, hintQueue, task>>
cacheVars == <<cache, last_get, uses, gets>>
clientVars == <<oracle, wire, run, cacheVars>>
executorVars == <<inner, updates, last_call>>
vars == <<hostVars, clientVars, executorVars>>

\* The timeout of get_preimage's retry loop, in seconds.
TIMEOUT_SECS == 60

NoResult == [kind |-> "None", bytes |-> <<>>]
Ok(b) == [kind |-> "Ok", bytes |-> b]
Err(e) == [kind |-> e, bytes |-> <<>>]

IdleTask ==
    [op |-> "none", pc |-> "idle", arg |-> None, key |-> 0, hint |-> None, preimage |-> None,
     result |-> NoResult, elapsed |-> 0, fetches |-> 0, missed |-> FALSE,
     failed |-> FALSE, polled_empty |-> FALSE]

Free(t) == task[t].pc \in {"idle", "done"}

\* The record of a call that has returned result r: its locals are gone, what
\* is kept is what it was asked, what it returned, how often it fetched and
\* whether a fetch failed or an iteration missed the key.
Done(call, r) ==
    [call EXCEPT !.pc = "done", !.result = r, !.hint = None, !.preimage = None,
                 !.polled_empty = FALSE]

Remove(q, t) == SelectSeq(q, LAMBDA x : x /= t)

(***************************************************************************)
(* The host backend.  OnlineHostBackend::new leaves the slot empty and the  *)
(* proactive set empty; with_proactive_hint may have added a hint type.    *)
(***************************************************************************)
HostInit ==
    /\ kv = [k \in Keys |-> None]
    /\ kvReaders = {}
    /\ proactive_hints \in {{}, {"l2-block-data"}}
    /\ last_hint = None
    /\ last_routed = None
    /\ hintReaders = {}
    /\ hintQueue = <<>>
    /\ task = [t \in Tasks |-> IdleTask]

\* ---- HintHandler::fetch_hint, the pluggable fetch handler -------------
\* The call's record once it has invoked the handler for hint h, at position pc.
InvokeFetch(call, h, pc) ==
    [call EXCEPT !.pc = pc, !.hint = Some(h),
                 !.fetches = Min(@ + 1, MaxFetches)]

InFetch(t) == task[t].pc \in {"rh_fetch", "gp_fetch"}

\* The handler takes the store's write lock and inserts the preimage its hint
\* names (zero or more times per invocation; an entry is written once).
FetchInsert(t) ==
    /\ InFetch(t)
    /\ kvReaders = {}
    /\ LET k == HintKey(Unwrap(task[t].hint))
       IN /\ k \in Keys
          /\ kv[k] = None
          /\ kv' = [kv EXCEPT ![k] = Some(PreimageOf(k))]
    /\ UNCHANGED <<kvReaders, proactive_hints, last_hint, last_routed, hintReaders, hintQueue, task>>
    /\ UNCHANGED <<clientVars, executorVars>>

\* ---- route_hint --------------------------------------------------------
\* A route_hint call with the given string.
RouteHintCall(raw) == [IdleTask EXCEPT !.op = "route_hint", !.arg = Some(raw)]

\* A slot that keeps a hint it already holds (get_or_insert for replace).
ReplaceSlotIfEmpty(slot, h) == IF IsSome(slot) THEN slot ELSE Some(h)

\* The slot after hint_lock.replace(parsed_hint).
ReplaceSlot(slot, h) == Some(h)

\* A route_hint that empties the slot before it parses the string.
RouteHintParseFailedTakesSlot(t, raw) ==
    /\ Free(t)
    /\ ~IsSome(Parsed[raw])
    /\ task' = [task EXCEPT ![t] =
                   Done(RouteHintCall(raw), Err("HintParseFailed"))]
    /\ last_hint' = None
    /\ UNCHANGED <<kv, kvReaders, proactive_hints, last_routed, hintReaders, hintQueue>>
    /\ UNCHANGED <<clientVars, executorVars>>

\* The parse fails: HintParseFailed, before anything else is touched.
RouteHintParseFailed(t, raw) ==
    /\ Free(t)
    /\ ~IsSome(Parsed[raw])
    /\ task' = [task EXCEPT ![t] =
                   Done(RouteHintCall(raw), Err("HintParseFailed"))]
    /\ UNCHANGED <<kv, kvReaders, proactive_hints, last_hint, last_routed, hintReaders, hintQueue>>
    /\ UNCHANGED <<clientVars, executorVars>>

\* A route_hint that stores a proactive hint in the slot as well.
RouteHintProactiveStored(t, raw) ==
    /\ Free(t)
    /\ IsSome(Parsed[raw])
    /\ Unwrap(Parsed[raw]).ty \in proactive_hints
    /\ task' = [task EXCEPT ![t] =
                   InvokeFetch(RouteHintCall(raw), Unwrap(Parsed[raw]), "rh_fetch")]
    /\ last_hint' = Parsed[raw]
    /\ UNCHANGED <<kv, kvReaders, proactive_hints, last_routed, hintReaders, hintQueue>>
    /\ UNCHANGED <<clientVars, executorVars>>

\* The hint's type is proactive: the handler is invoked at once.
RouteHintProactive(t, raw) ==
    /\ Free(t)
    /\ IsSome(Parsed[raw])
    /\ Unwrap(Parsed[raw]).ty \in proactive_hints
    /\ task' = [task EXCEPT ![t] =
                   InvokeFetch(RouteHintCall(raw), Unwrap(Parsed[raw]), "rh_fetch")]
    /\ UNCHANGED <<kv, kvReaders, proactive_hints, last_hint, last_routed, hintReaders, hintQueue>>
    /\ UNCHANGED <<clientVars, executorVars>>

\* The call's record once a handler it has invoked has returned.
FetchReturned(call, ok) == [call EXCEPT !.failed = @ \/ ~ok]

\* A route_hint that swallows the handler's error (.ok() for map_err(..)?).
ProactiveFetchResultIgnored(ok) == Ok(<<>>)

\* H::fetch_hint(..).await.map_err(|e| Other(e.to_string()))? ; Ok(())
ProactiveFetchResult(ok) == IF ok THEN Ok(<<>>) ELSE Err("Other")

\* The proactive handler returns: Ok, or its error as Other.
RouteHintFetched(t, ok) ==
    /\ task[t].pc = "rh_fetch"
    /\ task' = [task EXCEPT ![t] =
                   Done(FetchReturned(task[t], ok), ProactiveFetchResult(ok))]
    /\ UNCHANGED <<kv, kvReaders, proactive_hints, last_hint, last_routed, hintReaders, hintQueue>>
    /\ UNCHANGED <<clientVars, executorVars>>

\* The hint's type is not proactive: wait for the slot's write lock.
RouteHintLast(t, raw) ==
    /\ Free(t)
    /\ IsSome(Parsed[raw])
    /\ Unwrap(Parsed[raw]).ty \notin proactive_hints
    /\ task' = [task EXCEPT ![t] =
                   [RouteHintCall(raw) EXCEPT !.pc = "rh_write", !.hint = Parsed[raw]]]
    /\ hintQueue' = Append(hintQueue, t)
    /\ UNCHANGED <<kv, kvReaders, proactive_hints, last_hint, last_routed, hintReaders>>
    /\ UNCHANGED <<clientVars, executorVars>>

\* The write lock is granted (first in the queue, no reader left): the slot
\* is replaced, the lock dropped, Ok returned.
RouteHintReplace(t) ==
    /\ task[t].pc = "rh_write"
    /\ hintQueue /= <<>> /\ Head(hintQueue) = t
    /\ hintReaders = {}
    /\ last_hint' = ReplaceSlot(last_hint, Unwrap(task[t].hint))
    /\ last_routed' = task[t].hint
    /\ hintQueue' = Tail(hintQueue)
    /\ task' = [task EXCEPT ![t] = Done(task[t], Ok(<<>>))]
    /\ UNCHANGED <<kv, kvReaders, proactive_hints, hintReaders>>
    /\ UNCHANGED <<clientVars, executorVars>>

\* ---- get_preimage ------------------------------------------------------
\* kv_lock.get(key): what a store read returns for the key.
KvGet(k) == kv[k]

\* A timer of 60 milliseconds (Duration::from_millis for from_secs).
TimerFiredInMillis(t) == task[t].elapsed * 1000 >= TIMEOUT_SECS

\* The 60-second timer of timeout(..) has fired.
TimerFired(t) == task[t].elapsed >= TIMEOUT_SECS

\* The call is inside the future that timeout(..) wraps.
InLoop(t) == task[t].pc \in {"gp_hint", "gp_fetch", "gp_kv", "gp_end"}

\* The positions at which that future is suspended on an await.
Awaiting(t) == task[t].pc \in {"gp_hint", "gp_fetch", "gp_kv"}

\* preimage.ok_or(KeyNotFound), once the loop has ended inside the timeout.
OkOr(p) == IF IsSome(p) THEN Ok(Unwrap(p)) ELSE Err("KeyNotFound")

\* A loop that gives up after MaxFetches fetches.
LoopGoesOnBounded(call) == call.preimage = None /\ call.fetches < MaxFetches

\* A loop that tests its condition after the body (do-while for while).
LoopGoesOnAfterBody(call) == call.preimage = None \/ call.fetches = 0

\* while preimage.is_none()
LoopGoesOn(call) == call.preimage = None

\* The call at the head of the while loop.  With a preimage the loop ends and
\* the call returns; without one the loop goes on and asks for the slot's read
\* lock (an iteration has missed the key when the store holds it by now).
LoopHead(call, iterated) ==
    IF LoopGoesOn(call)
    THEN [call EXCEPT !.pc = "gp_hint", !.hint = None,
                      !.missed = @ \/ (iterated /\ IsSome(kv[call.key]))]
    ELSE Done(call, OkOr(call.preimage))

\* The slot's queue as the call passes the head of the loop.
QueueAtLoopHead(q, t, call) == IF LoopGoesOn(call) THEN Append(q, t) ELSE q

\* The call starts: it takes a read lock on the store and reads the key.
GetPreimageStart(t, key) ==
    /\ Free(t)
    /\ kvReaders' = kvReaders \cup {t}
    /\ task' = [task EXCEPT ![t] =
                   [IdleTask EXCEPT !.op = "get_preimage", !.pc = "gp_drop",
                                    !.key = key, !.preimage = KvGet(key)]]
    /\ UNCHANGED <<kv, proactive_hints, last_hint, last_routed, hintReaders, hintQueue>>
    /\ UNCHANGED <<clientVars, executorVars>>

\* A call that enters the retry loop with the store's read lock still held
\* (no drop(kv_lock)).
GetPreimageKeepsLock(t) ==
    /\ task[t].pc = "gp_drop"
    /\ task' = [task EXCEPT ![t] = LoopHead(task[t], FALSE)]
    /\ hintQueue' = QueueAtLoopHead(hintQueue, t, task[t])
    /\ UNCHANGED <<kv, kvReaders, proactive_hints, last_hint, last_routed, hintReaders>>
    /\ UNCHANGED <<clientVars, executorVars>>

\* drop(kv_lock), then the timed retry loop begins.
GetPreimageDrop(t) ==
    /\ task[t].pc = "gp_drop"
    /\ kvReaders' = kvReaders \ {t}
    /\ task' = [task EXCEPT ![t] = LoopHead(task[t], FALSE)]
    /\ hintQueue' = QueueAtLoopHead(hintQueue, t, task[t])
    /\ UNCHANGED <<kv, proactive_hints, last_hint, last_routed, hintReaders>>
    /\ UNCHANGED <<clientVars, executorVars>>

\* A call that, finding the slot empty, fetches for a hint made up from its
\* key (unwrap_or for if-let).
GetPreimageNoHintFetchesKey(t) ==
    /\ task[t].pc = "gp_hint"
    /\ hintQueue /= <<>> /\ Head(hintQueue) = t
    /\ last_hint = None
    /\ hintQueue' = Tail(hintQueue)
    /\ hintReaders' = hintReaders \cup {t}
    /\ task' = [task EXCEPT ![t] =
                   InvokeFetch(task[t], [ty |-> "l1-block-header", data |-> <<task[t].key>>],
                               "gp_fetch")]
    /\ UNCHANGED <<kv, kvReaders, proactive_hints, last_hint, last_routed>>
    /\ UNCHANGED <<clientVars, executorVars>>

\* The read lock is granted and the slot is empty: nothing to fetch, the
\* guard is dropped and the loop goes round.
GetPreimageNoHint(t) ==
    /\ task[t].pc = "gp_hint"
    /\ hintQueue /= <<>> /\ Head(hintQueue) = t
    /\ last_hint = None
    /\ task' = [task EXCEPT ![t] = LoopHead([task[t] EXCEPT !.polled_empty = TRUE], TRUE)]
    /\ hintQueue' = QueueAtLoopHead(Tail(hintQueue), t, task[t])
    /\ UNCHANGED <<kv, kvReaders, proactive_hints, last_hint, last_routed, hintReaders>>
    /\ UNCHANGED <<clientVars, executorVars>>

\* A call that takes the hint out of the slot as it fetches for it (take()
\* for as_ref()).
GetPreimageFetchTakesHint(t) ==
    /\ task[t].pc = "gp_hint"
    /\ hintQueue /= <<>> /\ Head(hintQueue) = t
    /\ IsSome(last_hint)
    /\ hintQueue' = Tail(hintQueue)
    /\ hintReaders' = hintReaders \cup {t}
    /\ last_hint' = None
    /\ task' = [task EXCEPT ![t] = InvokeFetch(task[t], Unwrap(last_hint), "gp_fetch")]
    /\ UNCHANGED <<kv, kvReaders, proactive_hints, last_routed>>
    /\ UNCHANGED <<clientVars, executorVars>>

\* The read lock is granted and the slot holds a hint: the handler is invoked
\* for a clone of it, the guard still held.
GetPreimageFetch(t) ==
    /\ task[t].pc = "gp_hint"
    /\ hintQueue /= <<>> /\ Head(hintQueue) = t
    /\ IsSome(last_hint)
    /\ hintQueue' = Tail(hintQueue)
    /\ hintReaders' = hintReaders \cup {t}
    /\ task' = [task EXCEPT ![t] = InvokeFetch(task[t], Unwrap(last_hint), "gp_fetch")]
    /\ UNCHANGED <<kv, kvReaders, proactive_hints, last_hint, last_routed>>
    /\ UNCHANGED <<clientVars, executorVars>>

\* The handler fails: the error is logged, `continue` drops the guard and the
\* loop goes round without a store read.
GetPreimageFetchErr(t) ==
    /\ task[t].pc = "gp_fetch"
    /\ hintReaders' = hintReaders \ {t}
    /\ task' = [task EXCEPT ![t] = LoopHead(FetchReturned(task[t], FALSE), TRUE)]
    /\ hintQueue' = QueueAtLoopHead(hintQueue, t, task[t])
    /\ UNCHANGED <<kv, kvReaders, proactive_hints, last_hint, last_routed>>
    /\ UNCHANGED <<clientVars, executorVars>>

\* The handler succeeds: the call goes on to read the store.
GetPreimageFetchOk(t) ==
    /\ task[t].pc = "gp_fetch"
    /\ task' = [task EXCEPT ![t].pc = "gp_kv", ![t].hint = None]
    /\ UNCHANGED <<kv, kvReaders, proactive_hints, last_hint, last_routed, hintReaders, hintQueue>>
    /\ UNCHANGED <<clientVars, executorVars>>

\* self.kv.read().await; preimage = kv_lock.get(key).
GetPreimageReread(t) ==
    /\ task[t].pc = "gp_kv"
    /\ kvReaders' = kvReaders \cup {t}
    /\ task' = [task EXCEPT ![t].pc = "gp_end", ![t].preimage = KvGet(task[t].key)]
    /\ UNCHANGED <<kv, proactive_hints, last_hint, last_routed, hintReaders, hintQueue>>
    /\ UNCHANGED <<clientVars, executorVars>>

\* An end of the block that drops the slot's guard and keeps the store's
\* (kv_lock declared outside the loop).
GetPreimageEndIterKeepsStore(t) ==
    /\ task[t].pc = "gp_end"
    /\ hintReaders' = hintReaders \ {t}
    /\ task' = [task EXCEPT ![t] = LoopHead(task[t], TRUE)]
    /\ hintQueue' = QueueAtLoopHead(hintQueue, t, task[t])
    /\ UNCHANGED <<kv, kvReaders, proactive_hints, last_hint, last_routed>>
    /\ UNCHANGED <<clientVars, executorVars>>

\* End of the if-let block: kv_lock and the slot's guard are dropped, and the
\* loop's condition is tested again.
GetPreimageEndIter(t) ==
    /\ task[t].pc = "gp_end"
    /\ kvReaders' = kvReaders \ {t}
    /\ hintReaders' = hintReaders \ {t}
    /\ task' = [task EXCEPT ![t] = LoopHead(task[t], TRUE)]
    /\ hintQueue' = QueueAtLoopHead(hintQueue, t, task[t])
    /\ UNCHANGED <<kv, proactive_hints, last_hint, last_routed>>
    /\ UNCHANGED <<clientVars, executorVars>>

\* The timer fires while the loop is suspended: the loop's future is dropped
\* with every guard it holds, and the call returns Timeout.
GetPreimageTimeout(t) ==
    /\ Awaiting(t)
    /\ TimerFired(t)
    /\ hintQueue' = Remove(hintQueue, t)
    /\ hintReaders' = hintReaders \ {t}
    /\ kvReaders' = kvReaders \ {t}
    /\ task' = [task EXCEPT ![t] = Done(task[t], Err("Timeout"))]
    /\ UNCHANGED <<kv, proactive_hints, last_hint, last_routed>>
    /\ UNCHANGED <<clientVars, executorVars>>

\* Time passes for every call inside its timed loop (a call's elapsed time
\* is kept up to its deadline, where it stops mattering).
Tick ==
    /\ \E t \in Tasks : InLoop(t) /\ ~TimerFired(t)
    /\ task' = [t \in Tasks |->
                   IF InLoop(t)
                   THEN [task[t] EXCEPT !.elapsed = Min(@ + TickSecs, TIMEOUT_SECS)]
                   ELSE task[t]]
    /\ UNCHANGED <<kv, kvReaders, proactive_hints, last_hint, last_routed, hintReaders, hintQueue>>
    /\ UNCHANGED <<clientVars, executorVars>>

HostNext ==
    \/ \E t \in Tasks, raw \in RawHints : RouteHintParseFailed(t, raw)
    \/ \E t \in Tasks, raw \in RawHints : RouteHintProactive(t, raw)
    \/ \E t \in Tasks, ok \in BOOLEAN : RouteHintFetched(t, ok)
    \/ \E t \in Tasks, raw \in RawHints : RouteHintLast(t, raw)
    \/ \E t \in Tasks : RouteHintReplace(t)
    \/ \E t \in Tasks : FetchInsert(t)
    \/ \E t \in Tasks, key \in Keys : GetPreimageStart(t, key)
    \/ \E t \in Tasks : GetPreimageDrop(t)
    \/ \E t \in Tasks : GetPreimageNoHint(t)
    \/ \E t \in Tasks : GetPreimageFetch(t)
    \/ \E t \in Tasks : GetPreimageFetchErr(t)
    \/ \E t \in Tasks : GetPreimageFetchOk(t)
    \/ \E t \in Tasks : GetPreimageReread(t)
    \/ \E t \in Tasks : GetPreimageEndIter(t)
    \/ \E t \in Tasks : GetPreimageTimeout(t)
    \/ Tick


(***************************************************************************)
(* The client: run() of bin/client/src/single.rs.                          *)
(***************************************************************************)
Roots == 0..(NumRoots - 1)
Blocks == 0..MaxBlock

\* The hash of the L2 block with number n (32 bytes), and the 128-byte
\* preimage of an output root whose block is n: version, state root, storage
\* root, block hash.
BlockHash(n) == [i \in 1..32 |-> (31 * n + i) % 256]
OutputPreimage(n) == [i \in 1..96 |-> (7 * i) % 256] \o BlockHash(n)

\* What the oracle serves: the boot info and the agreed output root's preimage.
Oracles ==
    [agreed_l2_output_root : Roots, claimed_l2_output_root : Roots,
     claimed_l2_block_number : Blocks, safe_head_number : Blocks]

\* PreimageKey::new_keccak256(digest) and PreimageKey::new_local(index).
Keccak256Key(digest) == [key_type |-> "Keccak256", digest |-> digest]
LocalKey(index) == [key_type |-> "Local", digest |-> index]

(***************************************************************************)
(* The caching oracle run() builds: CachingOracle::new(ORACLE_LRU_SIZE, ..),*)
(* an LRU cache in front of the oracle channel.                            *)
(***************************************************************************)
ORACLE_LRU_SIZE == 1024

\* The number of local keys BootInfo::load reads.
NumBootKeys == 4

\* The bytes the channel delivers for the keccak256 key with digest d.
KeyBytes(d) == <<d \div 256, d % 256>>

CacheHas(c, key) == \E i \in 1..Len(c) : c[i].key = key
CacheIndex(c, key) == CHOOSE i \in 1..Len(c) : c[i].key = key

\* LruCache::get(&key): the value of the entry.
CacheValue(c, key) == c[CacheIndex(c, key)].value

\* A lookup that leaves the order of the entries alone (peek for get).
CacheAfterPeek(c, key) == c

\* LruCache::get(&key) makes the entry the most recently used one.
CacheAfterGet(c, key) ==
    LET i == CacheIndex(c, key)
    IN <<c[i]>> \o SubSeq(c, 1, i - 1) \o SubSeq(c, i + 1, Len(c))

\* LruCache::put(key, value) of a key the cache does not hold: at capacity the
\* least recently used entry goes.
CacheAfterPut(c, cap, key, value) ==
    <<[key |-> key, value |-> value]>> \o
        (IF Len(c) >= cap THEN SubSeq(c, 1, cap - 1) ELSE c)

NoGet == [key |-> None, result |-> NoResult, wired |-> FALSE]
Got(key, result, wired) == [key |-> Some(key), result |-> result, wired |-> wired]

\* The caching oracle and its channel as one value.
OracleState ==
    [cache |-> cache, wire |-> wire, last_get |-> last_get,
     uses |-> uses, gets |-> gets]

\* CachingOracle::get_exact(key, buf) on state st: a hit copies the cached
\* bytes; a miss reads len bytes from the channel (delivered, or a failure)
\* and puts them in the cache.
GetExact(st, key, len, ok, delivered) ==
    IF CacheHas(st.cache, key)
    THEN [st EXCEPT !.cache = CacheAfterGet(st.cache, key),
                    !.last_get = Got(key, Ok(CacheValue(st.cache, key)), FALSE),
                    !.uses = Append(@, key),
                    !.gets = @ + 1]
    ELSE LET read == [op |-> "get_exact", key |-> key, len |-> len]
         IN IF ok
            THEN [st EXCEPT !.wire = Append(@, read),
                            !.cache = CacheAfterPut(@, ORACLE_LRU_SIZE, key, delivered),
                            !.last_get = Got(key, Ok(delivered), TRUE),
                            !.uses = Append(@, key),
                            !.gets = @ + 1]
            ELSE [st EXCEPT !.wire = Append(@, read),
                            !.last_get = Got(key, Err("OracleProviderError"), TRUE),
                            !.gets = @ + 1]

\* The oracle and its channel become st.
OracleBecomes(st) ==
    /\ cache' = st.cache
    /\ wire' = st.wire
    /\ last_get' = st.last_get
    /\ uses' = st.uses
    /\ gets' = st.gets

\* CachingOracle::new: an empty cache.
CacheInit ==
    /\ cache = <<>>
    /\ last_get = NoGet
    /\ uses = <<>>
    /\ gets = 0

\* The digests of the keccak256 keys the oracle is probed with: the oldest
\* keys, the keys around the capacity and keys beyond it.
ProbeDigests ==
    (1..NumProbes) \cup ((ORACLE_LRU_SIZE - 1)..(ORACLE_LRU_SIZE + NumProbes))

\* The oracle after get_exact for the keccak256 keys with digests 1..n in
\* turn, each a miss the channel has delivered: the last key read is the most
\* recently used.
FilledOracle(n) ==
    [cache |-> [i \in 1..n |-> [key |-> Keccak256Key(n + 1 - i),
                                value |-> KeyBytes(n + 1 - i)]],
     wire |-> [i \in 1..n |-> [op |-> "get_exact", key |-> Keccak256Key(i),
                               len |-> Len(KeyBytes(i))]],
     last_get |-> Got(Keccak256Key(n), Ok(KeyBytes(n)), TRUE),
     uses |-> [i \in 1..n |-> Keccak256Key(i)],
     gets |-> n]

\* A caching oracle that has been read up to its capacity, or one key short.
OracleFilledInit ==
    \E n \in {ORACLE_LRU_SIZE - 1, ORACLE_LRU_SIZE} :
        /\ cache = FilledOracle(n).cache
        /\ wire = FilledOracle(n).wire
        /\ last_get = FilledOracle(n).last_get
        /\ uses = FilledOracle(n).uses
        /\ gets = FilledOracle(n).gets

\* A caller reads the key with digest d through the caching oracle.
OracleGetExact(d, ok) ==
    /\ gets < ORACLE_LRU_SIZE + MaxGets
    /\ OracleBecomes(GetExact(OracleState, Keccak256Key(d), Len(KeyBytes(d)), ok,
                              KeyBytes(d)))
    /\ UNCHANGED <<oracle, run, hostVars, executorVars>>

OracleNext == \E d \in ProbeDigests, ok \in BOOLEAN : OracleGetExact(d, ok)

NoVerdict == [kind |-> "None", expected |-> -1, actual |-> -1]
RunOk == [kind |-> "Ok", expected |-> -1, actual |-> -1]
RunErr(e) == [kind |-> e, expected |-> -1, actual |-> -1]
InvalidClaim(expected, actual) ==
    [kind |-> "InvalidClaim", expected |-> expected, actual |-> actual]

NotStarted ==
    [pc |-> "off", phase |-> "Prologue", boot |-> None, safe_head_hash |-> None,
     safe_head |-> None, cursor |-> None, output_root |-> None, advanced |-> 0,
     result |-> NoVerdict]

ClientInit ==
    /\ oracle \in Oracles
    /\ wire = <<>>
    /\ CacheInit
    /\ run = [NotStarted EXCEPT !.pc = "boot"]

\* run() returns r.
RunDone(r) == [run EXCEPT !.pc = "done", !.result = r]

\* The bytes under the boot info's local keys: the L1 head, the agreed output
\* root, the claimed output root and the claimed block number.
BootValues ==
    << <<0>>, <<oracle.agreed_l2_output_root>>, <<oracle.claimed_l2_output_root>>,
       <<oracle.claimed_l2_block_number>> >>

\* BootInfo::load's reads of the local keys from the i-th on, through the
\* caching oracle; the read of key `failed` fails and ends them (0: none fails).
RECURSIVE BootReads(_, _, _)
BootReads(st, i, failed) ==
    IF i > NumBootKeys THEN st
    ELSE LET next == GetExact(st, LocalKey(i), Len(BootValues[i]), i /= failed,
                              BootValues[i])
         IN IF i = failed THEN next ELSE BootReads(next, i + 1, failed)

\* BootInfo::load(oracle).await? : the boot info, or an oracle error.
BootLoad(ok) ==
    /\ run.pc = "boot"
    /\ \E failed \in 1..NumBootKeys :
           OracleBecomes(BootReads(OracleState, 1, IF ok THEN 0 ELSE failed))
    /\ run' = IF ok
              THEN [run EXCEPT !.pc = "hint",
                       !.boot = Some([agreed_l2_output_root |-> oracle.agreed_l2_output_root,
                                      claimed_l2_output_root |-> oracle.claimed_l2_output_root,
                                      claimed_l2_block_number |-> oracle.claimed_l2_block_number])]
              ELSE RunDone(RunErr("OracleProviderError"))
    /\ UNCHANGED <<oracle, hostVars, executorVars>>

Boot == Unwrap(run.boot)

\* A slice that starts one byte early ([95..127] for [96..128]).
SafeHeadHashOffByOne(output_preimage) == SubSeq(output_preimage, 96, 127)

\* output_preimage[96..128]: bytes 96 to 127, counted from 0.
SafeHeadHashOf(output_preimage) == SubSeq(output_preimage, 97, 128)

\* fetch_safe_head_hash: HintType::StartingL2Output.with_data(..).send(..).await?
FetchSafeHeadHashHint(ok) ==
    /\ run.pc = "hint"
    /\ wire' = Append(wire, [op |-> "hint", ty |-> "starting-l2-output",
                             data |-> Boot.agreed_l2_output_root])
    /\ run' = IF ok THEN [run EXCEPT !.pc = "read"]
              ELSE RunDone(RunErr("OracleProviderError"))
    /\ UNCHANGED <<oracle, cacheVars, hostVars, executorVars>>

\* fetch_safe_head_hash: get_exact(keccak256 key, 128 bytes).await?, then the
\* slice of the preimage that is the safe head's hash.
FetchSafeHeadHashRead(ok) ==
    /\ run.pc = "read"
    /\ LET st == GetExact(OracleState, Keccak256Key(Boot.agreed_l2_output_root), 128,
                          ok, OutputPreimage(oracle.safe_head_number))
       IN /\ OracleBecomes(st)
          /\ run' = IF st.last_get.result.kind = "Ok"
                    THEN [run EXCEPT !.pc = "header",
                             !.safe_head_hash =
                                 Some(SafeHeadHashOf(st.last_get.result.bytes))]
                    ELSE RunDone(RunErr("OracleProviderError"))
    /\ UNCHANGED <<oracle, hostVars, executorVars>>

\* l2_provider.header_by_hash(safe_head_hash)? : the sealed header with that
\* hash (its number is what run() uses), or an oracle error.
HeaderByHash(ok) ==
    /\ run.pc = "header"
    /\ run' = IF ok
              THEN [run EXCEPT !.pc = "check",
                       !.safe_head =
                           Some(CHOOSE n \in Blocks : BlockHash(n) = Unwrap(run.safe_head_hash))]
              ELSE RunDone(RunErr("OracleProviderError"))
    /\ UNCHANGED <<oracle, wire, cacheVars, hostVars, executorVars>>

\* A trace-extension test that compares the claimed block to the safe head.
IsTraceExtensionByNumber == Boot.claimed_l2_block_number = Unwrap(run.safe_head)

\* boot.agreed_l2_output_root == boot.claimed_l2_output_root
IsTraceExtension == Boot.agreed_l2_output_root = Boot.claimed_l2_output_root

\* A regression test that gives way to the trace-extension test.
ClaimRegressesUnlessExtension ==
    /\ Boot.claimed_l2_block_number < Unwrap(run.safe_head)
    /\ ~IsTraceExtension

\* boot.claimed_l2_block_number < safe_head.number
ClaimRegresses == Boot.claimed_l2_block_number < Unwrap(run.safe_head)

\* The claimed block is behind the safe head: the claim is invalid.
ClaimRegression ==
    /\ run.pc = "check"
    /\ ClaimRegresses
    /\ run' = RunDone(InvalidClaim(Boot.agreed_l2_output_root, Boot.claimed_l2_output_root))
    /\ UNCHANGED <<oracle, wire, cacheVars, hostVars, executorVars>>

\* A trace extension that is logged but not returned from.
TraceExtensionFallsThrough ==
    /\ run.pc = "check"
    /\ ~ClaimRegresses
    /\ IsTraceExtension
    /\ \E root \in Roots :
           run' = [run EXCEPT !.pc = "pipeline", !.phase = "DerivingAndExecuting",
                              !.cursor = run.safe_head, !.output_root = Some(root)]
    /\ UNCHANGED <<oracle, wire, cacheVars, hostVars, executorVars>>

\* The agreed and the claimed output root are the same: nothing to derive.
TraceExtension ==
    /\ run.pc = "check"
    /\ ~ClaimRegresses
    /\ IsTraceExtension
    /\ run' = RunDone(RunOk)
    /\ UNCHANGED <<oracle, wire, cacheVars, hostVars, executorVars>>

\* Neither: derivation and execution begin with new_oracle_pipeline_cursor,
\* which anchors the cursor at the safe head, or fails.
NewCursor(ok, root) ==
    /\ run.pc = "check"
    /\ ~ClaimRegresses
    /\ ~IsTraceExtension
    /\ run' = IF ok
              THEN [run EXCEPT !.pc = "pipeline", !.phase = "DerivingAndExecuting",
                               !.cursor = run.safe_head, !.output_root = Some(root)]
              ELSE [RunDone(RunErr("OracleProviderError")) EXCEPT
                       !.phase = "DerivingAndExecuting"]
    /\ UNCHANGED <<oracle, wire, cacheVars, hostVars, executorVars>>

\* OraclePipeline::new(..).await? ; KonaExecutor::new and Driver::new follow.
NewPipeline(ok) ==
    /\ run.pc = "pipeline"
    /\ run' = IF ok THEN [run EXCEPT !.pc = "advance"]
              ELSE RunDone(RunErr("PipelineError"))
    /\ UNCHANGED <<oracle, wire, cacheVars, hostVars, executorVars>>

\* driver.advance_to_target: one block is derived and executed, the safe head
\* becomes the built block and its output root is computed; or the step fails.
AdvanceStep(ok, root) ==
    /\ run.pc = "advance"
    /\ Unwrap(run.cursor) < Boot.claimed_l2_block_number
    /\ run' = IF ok
              THEN [run EXCEPT !.cursor = Some(Unwrap(@) + 1),
                               !.output_root = Some(root), !.advanced = @ + 1]
              ELSE RunDone(RunErr("Driver"))
    /\ UNCHANGED <<oracle, wire, cacheVars, hostVars, executorVars>>

\* driver.advance_to_target returns once the safe head is at the claimed block.
AdvanceDone ==
    /\ run.pc = "advance"
    /\ Unwrap(run.cursor) >= Boot.claimed_l2_block_number
    /\ run' = [run EXCEPT !.pc = "epilogue", !.phase = "Epilogue"]
    /\ UNCHANGED <<oracle, wire, cacheVars, hostVars, executorVars>>

\* A verdict that names the claimed root first.
EpilogueVerdictSwapped(output_root, claimed) ==
    IF output_root /= claimed THEN InvalidClaim(claimed, output_root) ELSE RunOk

\* The verdict of the epilogue on the computed output root.
EpilogueVerdict(output_root, claimed) ==
    IF output_root /= claimed THEN InvalidClaim(output_root, claimed) ELSE RunOk

Epilogue ==
    /\ run.pc = "epilogue"
    /\ run' = RunDone(EpilogueVerdict(Unwrap(run.output_root), Boot.claimed_l2_output_root))
    /\ UNCHANGED <<oracle, wire, cacheVars, hostVars, executorVars>>

ClientNext ==
    \/ \E ok \in BOOLEAN : BootLoad(ok)
    \/ \E ok \in BOOLEAN : FetchSafeHeadHashHint(ok)
    \/ \E ok \in BOOLEAN : FetchSafeHeadHashRead(ok)
    \/ \E ok \in BOOLEAN : HeaderByHash(ok)
    \/ ClaimRegression
    \/ TraceExtension
    \/ \E ok \in BOOLEAN, root \in Roots : NewCursor(ok, root)
    \/ \E ok \in BOOLEAN : NewPipeline(ok)
    \/ \E ok \in BOOLEAN, root \in Roots : AdvanceStep(ok, root)
    \/ AdvanceDone
    \/ Epilogue

(***************************************************************************)
(* The executor adapter: KonaExecutor of crates/proof/proof/src/executor.rs.*)
(***************************************************************************)
NoCall ==
    [op |-> "none", result |-> "None", ready |-> FALSE, served_by |-> None,
     anchor |-> None]

\* KonaExecutor::new: no inner builder yet.
ExecutorInit ==
    /\ inner = None
    /\ updates = 0
    /\ last_call = NoCall

\* StatelessL2Builder::new(.., header, ..): a builder anchored at the header.
NewBuilder(header) == [header |-> header, built |-> 0]

\* self.inner.as_mut().map_or_else(|| Err(MissingExecutor), |e| ..): the
\* builder's result when there is a builder, MissingExecutor when there is none.
MapOrElse(o, result) == IF o = None THEN "MissingExecutor" ELSE result

\* The call's record: ready says whether update_safe_head had been called
\* before it, served_by is the header of the builder it was delegated to,
\* anchor the header of the most recent update_safe_head call.
Call(op, result) ==
    [op |-> op, result |-> result, ready |-> updates > 0,
     served_by |-> IF inner = None THEN None ELSE Some(Unwrap(inner).header),
     anchor |-> last_call.anchor]

\* wait_until_ready: a no-op.
WaitUntilReady ==
    /\ last_call' = [Call("wait_until_ready", "Unit") EXCEPT !.served_by = None]
    /\ UNCHANGED <<inner, updates, hostVars, clientVars>>

\* An update that keeps a builder the adapter already has (get_or_insert).
InnerAfterUpdateKeepsOld(old, header) ==
    IF old = None THEN Some(NewBuilder(header)) ELSE old

\* self.inner after update_safe_head(header).
InnerAfterUpdate(old, header) == Some(NewBuilder(header))

UpdateSafeHead(header) ==
    /\ inner' = InnerAfterUpdate(inner, header)
    /\ updates' = Min(updates + 1, MaxUpdates)
    /\ last_call' = [Call("update_safe_head", "Unit") EXCEPT !.served_by = None,
                                                             !.anchor = Some(header)]
    /\ UNCHANGED <<hostVars, clientVars>>

\* An execute_payload that takes the builder out of the adapter (take() for
\* as_mut()).
InnerAfterExecuteTaken(old, ok) == None

\* self.inner after execute_payload: as_mut() leaves the builder in place;
\* a block it has built changes the builder's state.
InnerAfterExecute(old, ok) ==
    IF old = None THEN None
    ELSE Some(IF ok THEN [Unwrap(old) EXCEPT !.built = Min(@ + 1, MaxBuilt)]
              ELSE Unwrap(old))

\* execute_payload: MissingExecutor without a builder, else build_block's result.
ExecutePayload(ok) ==
    /\ last_call' = Call("execute_payload",
                         MapOrElse(inner, IF ok THEN "BlockBuildingOutcome"
                                          ELSE "ExecutionError"))
    /\ inner' = InnerAfterExecute(inner, ok)
    /\ UNCHANGED <<updates, hostVars, clientVars>>

\* compute_output_root: MissingExecutor without a builder, else the builder's result.
ComputeOutputRoot(ok) ==
    /\ last_call' = Call("compute_output_root",
                         MapOrElse(inner, IF ok THEN "OutputRoot" ELSE "ExecutionError"))
    /\ UNCHANGED <<inner, updates, hostVars, clientVars>>

ExecutorNext ==
    \/ WaitUntilReady
    \/ \E header \in Blocks : UpdateSafeHead(header)
    \/ \E ok \in BOOLEAN : ExecutePayload(ok)
    \/ \E ok \in BOOLEAN : ComputeOutputRoot(ok)

(***************************************************************************)
(* Specifications: the host backend under concurrent callers; one run of   *)
(* the client program; the executor adapter under any sequence of calls.   *)
(* Each leaves the other two components as constructed.                    *)
(***************************************************************************)
HostOff ==
    /\ HostInit
    /\ proactive_hints = {}

ClientOff ==
    /\ oracle = [agreed_l2_output_root |-> 0, claimed_l2_output_root |-> 0,
                 claimed_l2_block_number |-> 0, safe_head_number |-> 0]
    /\ wire = <<>>
    /\ run = NotStarted
    /\ CacheInit

Init ==
    /\ HostInit
    /\ ClientOff
    /\ ExecutorInit

Next == HostNext

Spec == Init /\ [][Next]_vars

InitRun ==
    /\ HostOff
    /\ ClientInit
    /\ ExecutorInit

SpecRun == InitRun /\ [][ClientNext]_vars

InitExecutor ==
    /\ HostOff
    /\ ClientOff
    /\ ExecutorInit

SpecExecutor == InitExecutor /\ [][ExecutorNext]_vars

InitOracle ==
    /\ HostOff
    /\ oracle = [agreed_l2_output_root |-> 0, claimed_l2_output_root |-> 0,
                 claimed_l2_block_number |-> 0, safe_head_number |-> 0]
    /\ run = NotStarted
    /\ OracleFilledInit
    /\ ExecutorInit

SpecOracle == InitOracle /\ [][OracleNext]_vars

(***************************************************************************)
(* Properties of the host backend, checked under Spec.                     *)
(***************************************************************************)
IsGetPreimage(t) == task[t].op = "get_preimage"
IsRouteHint(t) == task[t].op = "route_hint"
Returned(t) == task[t].pc = "done"

\* The hint a route_hint call was given, parsed anew from the call's string.
ArgHint(call) == ParseHint(Unwrap(call.arg))
ArgIsProactive(call) ==
    /\ call.op = "route_hint"
    /\ IsSome(ArgHint(call))
    /\ Unwrap(ArgHint(call)).ty \in proactive_hints

\* C1 (retry correctness): a get_preimage call that has gone round its retry
\* loop while the store already held its key (so the key was inserted after
\* the call's first read missed it) returns the stored bytes, never Timeout.
\* This is the claim for the calls that had the chance to see the key.
RetryCorrectness ==
    \A t \in Tasks :
        (IsGetPreimage(t) /\ Returned(t) /\ task[t].missed)
            => task[t].result = Ok(PreimageOf(task[t].key))

\* C2 (parse failure isolation): a step that starts a route_hint call with a
\* string that does not parse ends the call with HintParseFailed, invokes no
\* fetch handler and leaves the last-hint slot and the store as they were.
ParseFailureIsolation ==
    [][\A t \in Tasks :
          (/\ Free(t)
           /\ task'[t] /= task[t]
           /\ task'[t].op = "route_hint"
           /\ ~IsSome(ArgHint(task'[t])))
          => (/\ task'[t].pc = "done"
              /\ task'[t].result = Err("HintParseFailed")
              /\ task'[t].fetches = 0
              /\ last_hint' = last_hint
              /\ kv' = kv)]_vars

\* A route_hint call with a malformed string has returned while the slot and
\* the store held something to lose.
ParseFailureWitness ==
    \E t \in Tasks :
        /\ IsRouteHint(t) /\ Returned(t)
        /\ task[t].result = Err("HintParseFailed")
        /\ IsSome(last_hint)
        /\ \E k \in Keys : IsSome(kv[k])

\* C3 (hint overwrite): the slot holds exactly the hint of the last
\* non-proactive route_hint to return Ok, whatever it held before, and a fetch
\* that get_preimage has in progress is for that hint.
HintOverwrite ==
    /\ last_hint = last_routed
    /\ \A t \in Tasks : task[t].pc = "gp_fetch" => task[t].hint = last_routed

\* Hint A was routed (its call returned Ok, not proactive), then another hint
\* replaced it, and a get_preimage is fetching for the slot's hint.
HintOverwriteWitness ==
    \E a, g \in Tasks :
        /\ IsRouteHint(a) /\ Returned(a) /\ task[a].result = Ok(<<>>)
        /\ ~ArgIsProactive(task[a])
        /\ ArgHint(task[a]) /= last_hint
        /\ task[g].pc = "gp_fetch"
        /\ task[g].hint = last_hint

\* C4 (proactive routing): every step of a route_hint call for a hint of a
\* proactive type leaves the last-hint slot as it was; the call has invoked
\* the fetch handler exactly once, from its first step on, and returns Ok or
\* Other.
ProactiveRouting ==
    [][\A t \in Tasks :
          (task'[t] /= task[t] /\ ArgIsProactive(task'[t]))
          => (/\ last_hint' = last_hint
              /\ task'[t].fetches = 1
              /\ \/ task'[t].pc = "rh_fetch"
                 \/ /\ task'[t].pc = "done"
                    /\ task'[t].result \in {Ok(<<>>), Err("Other")})]_vars

\* A proactive route_hint has failed in its fetch while the slot held a hint.
ProactiveRoutingWitness ==
    \E t \in Tasks :
        /\ Returned(t) /\ ArgIsProactive(task[t])
        /\ task[t].result = Err("Other")
        /\ IsSome(last_hint)

\* C10 (timeout boundary): a get_preimage call that has returned while its
\* key is not in the store (it never was: the store only grows) has returned
\* Timeout, and not before 60 seconds had passed in its retry loop.
TimeoutBoundary ==
    \A t \in Tasks :
        (IsGetPreimage(t) /\ Returned(t) /\ kv[task[t].key] = None)
            => (task[t].result = Err("Timeout") /\ task[t].elapsed >= TIMEOUT_SECS)

\* A call has timed out on a key that never came, after fetching for hints
\* that did not produce it.
TimeoutBoundaryWitness ==
    \E t \in Tasks :
        /\ IsGetPreimage(t) /\ Returned(t)
        /\ kv[task[t].key] = None
        /\ task[t].result = Err("Timeout")
        /\ task[t].fetches > 0

\* C11 (fast path): a get_preimage call whose key is in the store when it
\* takes its initial read has read the stored bytes, and its next step returns
\* them, with no fetch handler invoked and the last-hint slot and the store
\* left as they were, whatever the slot holds.
FastPath ==
    [][\A t \in Tasks :
          /\ (/\ Free(t)
              /\ task'[t].pc = "gp_drop"
              /\ IsSome(kv[task'[t].key]))
             => (/\ task'[t].preimage = kv[task'[t].key]
                 /\ task'[t].fetches = 0)
          /\ (/\ task[t].pc = "gp_drop"
              /\ IsSome(task[t].preimage)
              /\ task'[t] /= task[t])
             => (/\ task'[t].pc = "done"
                 /\ task'[t].result = Ok(PreimageOf(task[t].key))
                 /\ task'[t].result = Ok(Unwrap(kv[task[t].key]))
                 /\ task'[t].fetches = 0
                 /\ last_hint' = last_hint
                 /\ kv' = kv)]_vars

\* A call has returned the stored bytes without a fetch and without any time
\* in the retry loop, while the slot held a hint for another key.
FastPathWitness ==
    \E t \in Tasks :
        /\ IsGetPreimage(t) /\ Returned(t)
        /\ task[t].result = Ok(PreimageOf(task[t].key))
        /\ task[t].fetches = 0
        /\ IsSome(last_hint)
        /\ HintKey(Unwrap(last_hint)) /= task[t].key

\* C14 (router not blocked by a fetch): a route_hint call that is next in line
\* for exclusive access to the last-hint slot is never kept from it by a
\* get_preimage call that is inside a fetch-handler invocation.
RouterNotBlockedByFetch ==
    \A r \in Tasks :
        (/\ task[r].pc = "rh_write"
         /\ hintQueue /= <<>> /\ Head(hintQueue) = r)
            => \A g \in hintReaders : task[g].pc /= "gp_fetch"

\* C15 (no store lock across a fetch): a get_preimage call holds a read lock
\* on the store only between a store read and the drop that follows it; in
\* particular it holds none while it waits for the slot or is inside a
\* fetch-handler invocation, in the first iteration and in every later one.
NoStoreLockInFetch ==
    \A t \in Tasks :
        /\ task[t].pc \in {"gp_hint", "gp_fetch", "gp_kv"} => t \notin kvReaders
        /\ t \in kvReaders => task[t].pc \in {"gp_drop", "gp_end"}

\* A call is inside its second fetch or a later one, and the store has
\* taken the key its handler fetches.
NoStoreLockInFetchWitness ==
    \E t \in Tasks :
        /\ task[t].pc = "gp_fetch"
        /\ task[t].fetches >= 2
        /\ t \notin kvReaders
        /\ IsSome(kv[HintKey(Unwrap(task[t].hint))])
        /\ kv[task[t].key] = None

\* The calls ahead of t in the queue of the last-hint lock.
AheadInQueue(t) ==
    {hintQueue[i] : i \in {j \in 1..Len(hintQueue) :
                              \E k \in (j + 1)..Len(hintQueue) : hintQueue[k] = t}}

\* The handler a call has invoked still has its hint's preimage to insert.
HasToInsert(t) == InFetch(t) /\ kv[HintKey(Unwrap(task[t].hint))] = None

\* The calls whose locks (or places in the queue) call t is waiting for: a
\* router waits for the queue ahead of it and for the slot's readers, a
\* get_preimage at the slot for the queue ahead of it, a handler that has to
\* insert for the store's readers.
WaitsFor(t) ==
    IF task[t].pc = "rh_write" THEN AheadInQueue(t) \cup hintReaders
    ELSE IF task[t].pc = "gp_hint" THEN AheadInQueue(t)
    ELSE IF HasToInsert(t) THEN kvReaders
    ELSE {}

\* Every call of D waits for a call of D.
Deadlocked(D) == D /= {} /\ \A t \in D : WaitsFor(t) \cap D /= {}

\* C16 (no deadlock): no set of calls waits on each other's locks, and a
\* call that waits for no other call gets the lock it asks for: the router
\* can replace the slot, get_preimage can read it, the handler can insert.
NoLockDeadlock ==
    /\ \A D \in SUBSET Tasks : ~Deadlocked(D)
    /\ \A t \in Tasks :
           WaitsFor(t) = {} =>
               /\ task[t].pc = "rh_write" => ENABLED RouteHintReplace(t)
               /\ task[t].pc = "gp_hint" =>
                      ENABLED (GetPreimageNoHint(t) \/ GetPreimageFetch(t))
               /\ task[t].pc = "gp_kv" => ENABLED GetPreimageReread(t)
               /\ HasToInsert(t) => ENABLED FetchInsert(t)

\* A router waits for the slot behind a get_preimage that holds the slot's
\* read lock while its handler has to insert into the store.
NoLockDeadlockWitness ==
    \E r, g \in Tasks :
        /\ task[r].pc = "rh_write"
        /\ g \in WaitsFor(r)
        /\ HasToInsert(g)
        /\ task[g].pc = "gp_fetch"

\* C17 (fetch errors): a get_preimage call inside a fetch-handler invocation
\* does not return from it except by the 60-second timer; a failure of the
\* handler takes the call back to the head of its loop, and a call whose
\* handler has failed returns the stored bytes or Timeout, never the
\* failure.  A proactive route_hint returns as soon as its one handler
\* invocation does: Other if it failed, Ok if it did not.
FetchErrorsFatalOnlyProactive ==
    [][\A t \in Tasks :
          /\ (task[t].pc = "gp_fetch" /\ task'[t] /= task[t]) =>
                 \/ task'[t].pc \in {"gp_fetch", "gp_kv"} /\ task'[t].failed = task[t].failed
                 \/ task'[t].pc = "gp_hint" /\ task'[t].failed
                 \/ /\ task'[t].pc = "done"
                    /\ task'[t].result = Err("Timeout")
                    /\ task[t].elapsed >= TIMEOUT_SECS
          /\ (task'[t].op = "get_preimage" /\ task'[t].pc = "done" /\ task'[t].failed) =>
                 task'[t].result \in {Ok(PreimageOf(task'[t].key)), Err("Timeout")}
          /\ (task[t].pc = "rh_fetch" /\ task'[t] /= task[t]) =>
                 /\ task'[t].pc = "done"
                 /\ task'[t].fetches = 1
                 /\ task'[t].failed => task'[t].result = Err("Other")
                 /\ ~task'[t].failed => task'[t].result = Ok(<<>>)]_vars

\* A get_preimage call whose handler failed has gone on to return the stored
\* bytes, and a proactive route_hint whose handler failed has returned Other.
FetchErrorsWitness ==
    \E g, r \in Tasks :
        /\ IsGetPreimage(g) /\ Returned(g) /\ task[g].failed
        /\ task[g].result = Ok(PreimageOf(task[g].key))
        /\ ArgIsProactive(task[r]) /\ Returned(r) /\ task[r].failed
        /\ task[r].result = Err("Other")
        /\ task[r].fetches = 1

\* C18 (only the slot's hint is fetched): a get_preimage call invokes the
\* fetch handler only as the step that reads the slot, only if the slot holds
\* a hint, and for exactly that hint; a call that reads an empty slot stays
\* at the head of its loop with no handler invoked (or is ended by the timer).
OnlySlotHintFetched ==
    [][\A t \in Tasks :
          /\ (task[t].pc = "gp_hint" /\ task'[t] /= task[t]) =>
                 \/ /\ task'[t].pc = "gp_hint"
                    /\ task'[t].fetches = task[t].fetches
                 \/ /\ task'[t].pc = "gp_fetch"
                    /\ IsSome(last_hint)
                    /\ task'[t].hint = last_hint
                    /\ last_hint' = last_hint
                    /\ task'[t].fetches = Min(task[t].fetches + 1, MaxFetches)
                 \/ /\ task'[t].pc = "done"
                    /\ task'[t].result = Err("Timeout")
                    /\ task'[t].fetches = task[t].fetches
          /\ (task'[t].pc = "gp_fetch" /\ task[t].pc /= "gp_fetch") =>
                 task[t].pc = "gp_hint"
          /\ (task[t].pc \in {"gp_drop", "gp_fetch", "gp_kv", "gp_end"}) =>
                 task'[t].fetches = task[t].fetches
          /\ task'[t].pc = "gp_drop" => task'[t].fetches = 0]_vars

\* A call that has polled an empty slot is now fetching for the hint that
\* was routed during its wait.
OnlySlotHintFetchedWitness ==
    \E t \in Tasks :
        /\ task[t].pc = "gp_fetch"
        /\ task[t].polled_empty
        /\ task[t].fetches = 1
        /\ task[t].hint = last_hint
        /\ last_hint = last_routed

\* C20 (outcomes of get_preimage): a get_preimage call that has returned has
\* returned Ok with the bytes the store holds for its key (entries are
\* written once, so these are the bytes of its last store read) or Timeout,
\* and never KeyNotFound.
OutcomesOkOrTimeout ==
    \A t \in Tasks :
        (IsGetPreimage(t) /\ Returned(t)) =>
            /\ task[t].result.kind \in {"Ok", "Timeout"}
            /\ task[t].result.kind /= "KeyNotFound"
            /\ task[t].result.kind = "Ok" =>
                   /\ kv[task[t].key] = Some(task[t].result.bytes)
                   /\ task[t].result = Ok(PreimageOf(task[t].key))
            /\ task[t].result.kind = "Timeout" =>
                   /\ task[t].result = Err("Timeout")
                   /\ task[t].elapsed >= TIMEOUT_SECS

\* One call has returned the stored bytes after more than one fetch, and
\* another has timed out after fetching as often.
OutcomesWitness ==
    \E a, b \in Tasks :
        /\ IsGetPreimage(a) /\ Returned(a)
        /\ task[a].fetches >= MaxFetches
        /\ task[a].result = Ok(PreimageOf(task[a].key))
        /\ IsGetPreimage(b) /\ Returned(b)
        /\ task[b].fetches >= MaxFetches
        /\ task[b].result = Err("Timeout")

\* C21 (the hint is not consumed): no step of a get_preimage call changes
\* the last-hint slot, whether the call starts, fetches, reads the store,
\* returns the bytes or times out; a step that changes the slot is the
\* return of a route_hint call for a hint of a non-proactive type, with Ok,
\* and leaves that call's hint in the slot.
HintNotConsumed ==
    [][/\ \A t \in Tasks :
            (task'[t] /= task[t] /\ task'[t].op = "get_preimage")
                => last_hint' = last_hint
       /\ last_hint' /= last_hint =>
            \E r \in Tasks :
                /\ task[r].pc = "rh_write"
                /\ task'[r].pc = "done"
                /\ task'[r].op = "route_hint"
                /\ task'[r].result = Ok(<<>>)
                /\ ~ArgIsProactive(task'[r])
                /\ last_hint' = ArgHint(task'[r])]_vars

\* One get_preimage call has fetched and returned the stored bytes, and a
\* later miss on another key is fetching for the hint still in the slot,
\* which no route_hint has replaced since.
HintNotConsumedWitness ==
    \E a, b \in Tasks :
        /\ IsGetPreimage(a) /\ Returned(a)
        /\ task[a].fetches >= 1
        /\ task[a].result = Ok(PreimageOf(task[a].key))
        /\ task[b].pc = "gp_fetch"
        /\ task[b].key /= task[a].key
        /\ task[b].hint = last_hint
        /\ HintKey(Unwrap(last_hint)) = task[a].key
        /\ last_hint = last_routed

(***************************************************************************)
(* Properties of run(), checked under SpecRun.                             *)
(***************************************************************************)
\* Boot info and the safe head's header have been loaded.
Loaded == IsSome(run.boot) /\ IsSome(run.safe_head)
RunReturned == run.pc = "done"
NoDerivation == run.phase = "Prologue" /\ run.advanced = 0 /\ run.cursor = None

\* C5 (claim regression): once boot info and the safe head are loaded with the
\* claimed block number below the safe head's, run() performs no derivation
\* or execution step and returns InvalidClaim(agreed root, claimed root).
ClaimRegressionInvalid ==
    (Loaded /\ oracle.claimed_l2_block_number < oracle.safe_head_number)
        => /\ NoDerivation
           /\ RunReturned =>
                  run.result = InvalidClaim(oracle.agreed_l2_output_root,
                                            oracle.claimed_l2_output_root)

\* run() has rejected a regressing claim whose roots are equal.
ClaimRegressionWitness ==
    /\ RunReturned /\ Loaded
    /\ oracle.claimed_l2_block_number < oracle.safe_head_number
    /\ oracle.agreed_l2_output_root = oracle.claimed_l2_output_root
    /\ run.result.kind = "InvalidClaim"

\* C6 as claimed: once boot info and the safe head are loaded with the agreed
\* root equal to the claimed root, run() returns Ok without derivation.
TraceExtensionAlwaysOk ==
    (Loaded /\ oracle.agreed_l2_output_root = oracle.claimed_l2_output_root)
        => /\ NoDerivation
           /\ RunReturned => run.result = RunOk

\* C6 as amended: the same, for a claimed block number that is not below the
\* safe head's.
TraceExtensionOk ==
    (/\ Loaded
     /\ oracle.agreed_l2_output_root = oracle.claimed_l2_output_root
     /\ oracle.claimed_l2_block_number >= oracle.safe_head_number)
        => /\ NoDerivation
           /\ RunReturned => run.result = RunOk

\* run() has accepted a trace extension whose claimed block is ahead of the
\* safe head.
TraceExtensionWitness ==
    /\ RunReturned /\ Loaded
    /\ oracle.agreed_l2_output_root = oracle.claimed_l2_output_root
    /\ oracle.claimed_l2_block_number > oracle.safe_head_number
    /\ run.result = RunOk

\* C7 (epilogue verdict): a run that has reached the epilogue stands at the
\* claimed block, and returns Ok if the computed root R is the claimed root,
\* InvalidClaim(R, claimed root) if it is not.
EpilogueVerdictCorrect ==
    run.phase = "Epilogue"
        => /\ Unwrap(run.cursor) = oracle.claimed_l2_block_number
           /\ RunReturned =>
                  LET R == Unwrap(run.output_root)
                  IN /\ R = oracle.claimed_l2_output_root => run.result = RunOk
                     /\ R /= oracle.claimed_l2_output_root =>
                            run.result = InvalidClaim(R, oracle.claimed_l2_output_root)

\* A run has derived blocks up to the claimed one and found another root.
EpilogueVerdictWitness ==
    /\ RunReturned /\ run.phase = "Epilogue"
    /\ run.advanced >= 2
    /\ Unwrap(run.output_root) /= oracle.claimed_l2_output_root
    /\ Unwrap(run.output_root) /= oracle.agreed_l2_output_root
    /\ run.result.kind = "InvalidClaim"

\* C8 (driver state machine): run() returns Ok exactly as a trace extension
\* (from the prologue, roots equal, claim not regressing) or as a valid claim
\* (from the epilogue, computed root equal to the claimed one), and an error
\* on every other path; derivation is entered only from a loaded prologue
\* that was neither a regression nor a trace extension.
IsTraceExtensionOutcome ==
    /\ run.phase = "Prologue" /\ Loaded
    /\ oracle.claimed_l2_block_number >= oracle.safe_head_number
    /\ oracle.agreed_l2_output_root = oracle.claimed_l2_output_root
IsValidOutcome ==
    /\ run.phase = "Epilogue"
    /\ Unwrap(run.output_root) = oracle.claimed_l2_output_root
DriverStateMachine ==
    /\ RunReturned =>
          /\ run.result.kind \in {"Ok", "InvalidClaim", "OracleProviderError",
                                  "PipelineError", "Driver"}
          /\ run.result = RunOk <=> (IsTraceExtensionOutcome \/ IsValidOutcome)
    /\ run.phase /= "Prologue" =>
          /\ Loaded
          /\ oracle.claimed_l2_block_number >= oracle.safe_head_number
          /\ oracle.agreed_l2_output_root /= oracle.claimed_l2_output_root
    /\ run.phase = "Prologue" => run.advanced = 0 /\ run.cursor = None

\* A run has failed inside derivation, after a block was derived.
DriverStateMachineWitness ==
    /\ RunReturned
    /\ run.phase = "DerivingAndExecuting"
    /\ run.advanced >= 1
    /\ run.result = RunErr("Driver")

\* What fetch_safe_head_hash puts on the channel: the StartingL2Output hint
\* with the agreed root, and the 128-byte read of the root's keccak256 key.
StartingL2OutputHint ==
    [op |-> "hint", ty |-> "starting-l2-output", data |-> oracle.agreed_l2_output_root]
OutputRootRead ==
    [op |-> "get_exact", key |-> Keccak256Key(oracle.agreed_l2_output_root), len |-> 128]
WireCount(e) == Cardinality({i \in 1..Len(wire) : wire[i] = e})

\* C12 (safe head hash): the 128-byte read of the agreed root's keccak256 key
\* is on the channel at most once and directly after the StartingL2Output
\* hint with the agreed root; a safe-head hash exists only after that read,
\* and is bytes 96..127 (from 0) of the preimage the read delivered; a run
\* that has returned after the boot info without a hash has returned the
\* oracle's error, after the hint.
SafeHeadHashFetched ==
    /\ WireCount(StartingL2OutputHint) <= 1
    /\ WireCount(OutputRootRead) <= 1
    /\ \A i \in 1..Len(wire) :
           wire[i] = OutputRootRead => (i > 1 /\ wire[i - 1] = StartingL2OutputHint)
    /\ run.pc \in {"boot", "hint"} => WireCount(StartingL2OutputHint) = 0
    /\ run.pc = "read" =>
           (WireCount(StartingL2OutputHint) = 1 /\ WireCount(OutputRootRead) = 0)
    /\ IsSome(run.safe_head_hash) =>
           /\ WireCount(OutputRootRead) = 1
           /\ Len(Unwrap(run.safe_head_hash)) = 32
           /\ \A i \in 0..31 :
                  Unwrap(run.safe_head_hash)[i + 1] =
                      OutputPreimage(oracle.safe_head_number)[96 + i + 1]
    /\ (RunReturned /\ IsSome(run.boot) /\ run.safe_head_hash = None) =>
           /\ run.result = RunErr("OracleProviderError")
           /\ WireCount(StartingL2OutputHint) = 1

\* The hash has been cut from a delivered preimage, after the boot reads, the
\* hint and the read.
SafeHeadHashWitness ==
    /\ IsSome(run.safe_head_hash)
    /\ oracle.safe_head_number = MaxBlock
    /\ Unwrap(run.safe_head_hash) = BlockHash(MaxBlock)
    /\ Len(wire) = NumBootKeys + 2
    /\ last_get.wired

(***************************************************************************)
(* Properties of the caching oracle, checked under SpecOracle.             *)
(***************************************************************************)
\* The keys a cache holds.
Held(c) == {c[i].key : i \in 1..Len(c)}

\* The keys get_exact has returned since it last returned key.
LastUse(key) ==
    CHOOSE i \in 1..Len(uses) :
        uses[i] = key /\ \A j \in (i + 1)..Len(uses) : uses[j] /= key
UsedSince(key) == {uses[i] : i \in (LastUse(key) + 1)..Len(uses)}

\* key is the least recently used of the held keys: each of the others has
\* been returned since key last was.
IsLeastRecentlyUsed(key, held) == (held \ {key}) \subseteq UsedSince(key)

\* C13 (cache coherence): the cache never holds more than 1024 keys.  A
\* get_exact for a key the cache holds returns the bytes stored for it with
\* no read on the channel and evicts nothing.  A get_exact for a key the
\* cache does not hold reads the channel; when the bytes are delivered the
\* key is stored, and if the cache held 1024 keys exactly one key leaves it,
\* the least recently used one, while below capacity none leaves.
CacheCoherence ==
    [][LET key == Unwrap(last_get'.key)
           read == [op |-> "get_exact", key |-> key, len |-> Len(KeyBytes(key.digest))]
           held == Held(cache)
           gone == Held(cache) \ Held(cache')
       IN /\ Len(cache') <= ORACLE_LRU_SIZE
          /\ Cardinality(Held(cache')) = Len(cache')
          /\ key \in held =>
                 /\ last_get'.result = Ok(KeyBytes(key.digest))
                 /\ ~last_get'.wired
                 /\ wire' = wire
                 /\ Held(cache') = held
          /\ key \notin held =>
                 /\ last_get'.wired
                 /\ wire' = Append(wire, read)
          /\ (key \notin held /\ last_get'.result.kind /= "Ok") =>
                 Held(cache') = held
          /\ (key \notin held /\ last_get'.result.kind = "Ok") =>
                 /\ last_get'.result = Ok(KeyBytes(key.digest))
                 /\ Held(cache') = (held \ gone) \cup {key}
                 /\ IF Len(cache) < ORACLE_LRU_SIZE
                    THEN gone = {}
                    ELSE /\ Cardinality(gone) = 1
                         /\ \A e \in gone : IsLeastRecentlyUsed(e, held)]_vars

\* The oldest key was read again (a hit), then a 1025th key evicted the
\* second oldest, which has now been read from the channel a second time
\* while the oldest is still held.
CacheCoherenceWitness ==
    /\ Len(cache) = ORACLE_LRU_SIZE
    /\ last_get = Got(Keccak256Key(2), Ok(KeyBytes(2)), TRUE)
    /\ WireCount([op |-> "get_exact", key |-> Keccak256Key(2), len |-> Len(KeyBytes(2))]) = 2
    /\ CacheHas(cache, Keccak256Key(1))
    /\ CacheHas(cache, Keccak256Key(ORACLE_LRU_SIZE + 1))
    /\ WireCount([op |-> "get_exact", key |-> Keccak256Key(1), len |-> Len(KeyBytes(1))]) = 1

(***************************************************************************)
(* Properties of the executor adapter, checked under SpecExecutor.         *)
(***************************************************************************)
\* C9 (adapter readiness): execute_payload and compute_output_root fail with
\* MissingExecutor exactly when no update_safe_head call came before them,
\* and once update_safe_head has been called the inner builder is present.
AdapterReadiness ==
    /\ last_call.op \in {"execute_payload", "compute_output_root"}
           => (last_call.result = "MissingExecutor" <=> ~last_call.ready)
    /\ updates > 0 => IsSome(inner)
    /\ updates = 0 => inner = None

\* After an update and a built block, compute_output_root is served.
AdapterReadinessWitness ==
    /\ last_call.op = "compute_output_root"
    /\ last_call.ready
    /\ last_call.result = "OutputRoot"
    /\ IsSome(inner) /\ Unwrap(inner).built > 0

\* C19 (wholesale replacement): once update_safe_head has been called the
\* adapter's one builder is anchored at the header of the most recent call;
\* right after update_safe_head it is a fresh builder for that header, with
\* nothing of the builder it replaced; and an execute_payload or
\* compute_output_root that was served was delegated to the builder of the
\* most recent update_safe_head.
ReplacedWholesale ==
    /\ IsSome(last_call.anchor) <=> updates > 0
    /\ IsSome(last_call.anchor) =>
           (IsSome(inner) /\ Unwrap(inner).header = Unwrap(last_call.anchor))
    /\ last_call.op = "update_safe_head" =>
           inner = Some(NewBuilder(Unwrap(last_call.anchor)))
    /\ (last_call.op \in {"execute_payload", "compute_output_root"}
           /\ last_call.result /= "MissingExecutor") =>
           (IsSome(last_call.served_by) /\ last_call.served_by = last_call.anchor)

\* After a second update_safe_head, a payload has been executed by the
\* builder of the later header.
ReplacedWholesaleWitness ==
    /\ updates >= 2
    /\ last_call.op = "execute_payload"
    /\ last_call.result = "BlockBuildingOutcome"
    /\ last_call.served_by = Some(MaxBlock)
    /\ last_call.anchor = Some(MaxBlock)
    /\ Unwrap(inner).built = 1

====
